---- MODULE Spec2Model ----
(***************************************************************************)
(* Tabular display normalisation of app.py: the cost-ratio inversion       *)
(* (replace_acos_obj_with_roas_obj), the view preparation                  *)
(* (prepare_df_for_view) and the locale formatter (format_table_br).       *)
(*                                                                         *)
(* A text is a sequence of one-character strings.  A table is a sequence   *)
(* of columns [name, cells]; a cell is a record tagged by k:               *)
(*   "nan" (float NaN), "none" (None), "na" (pandas NA),                   *)
(*   "int" (n), "float" (the exact rational n/d, d > 0), "str" (s).        *)
(* Floats are exact rationals: binary rounding error is not modelled.      *)
(***************************************************************************)
EXTENDS Integers, Sequences, FiniteSets, TLC

VARIABLES snapshot, df, out, op

vars == <<snapshot, df, out, op>>

(***************************************************************************)
(* Python str primitives.                                                  *)
(***************************************************************************)
UpperChars == <<"A","B","C","D","E","F","G","H","I","J","K","L","M",
                "N","O","P","Q","R","S","T","U","V","W","X","Y","Z">>

LowerChars == <<"a","b","c","d","e","f","g","h","i","j","k","l","m",
                "n","o","p","q","r","s","t","u","v","w","x","y","z">>

DigitChars == <<"0","1","2","3","4","5","6","7","8","9">>

Whitespace == {" ", "\n", "\t"}

\* Characters outside ASCII that the source's keyword lists use.
CCedil == "c,"
AAcute == "a'"
ATilde == "a~"
UAcute == "u'"
OTilde == "o~"
EAcute == "e'"

IsDigit(c) == \E i \in 1..10 : DigitChars[i] = c

DigitVal(c) == (CHOOSE i \in 1..10 : DigitChars[i] = c) - 1

LowerChar(c) ==
    IF \E i \in 1..26 : UpperChars[i] = c
    THEN LowerChars[CHOOSE i \in 1..26 : UpperChars[i] = c]
    ELSE c

\* str.lower()
Lower(s) == [i \in 1..Len(s) |-> LowerChar(s[i])]

RECURSIVE LStrip(_)
LStrip(s) ==
    IF s # <<>> /\ Head(s) \in Whitespace THEN LStrip(Tail(s)) ELSE s

RECURSIVE RStrip(_)
RStrip(s) ==
    IF s # <<>> /\ s[Len(s)] \in Whitespace
    THEN RStrip(SubSeq(s, 1, Len(s) - 1))
    ELSE s

\* str.strip()
Strip(s) == RStrip(LStrip(s))

\* str.startswith(p)
StartsWith(s, p) == Len(p) <= Len(s) /\ SubSeq(s, 1, Len(p)) = p

\* str.endswith(p)
EndsWith(s, p) ==
    Len(p) <= Len(s) /\ SubSeq(s, Len(s) - Len(p) + 1, Len(s)) = p

\* p in s
Contains(s, p) ==
    \E i \in 1..(Len(s) - Len(p) + 1) : SubSeq(s, i, i + Len(p) - 1) = p

\* str.replace(old, new): non-overlapping occurrences, left to right.
RECURSIVE StrReplace(_, _, _)
StrReplace(s, old, new) ==
    IF s = <<>> THEN <<>>
    ELSE IF StartsWith(s, old)
         THEN new \o StrReplace(SubSeq(s, Len(old) + 1, Len(s)), old, new)
         ELSE <<Head(s)>> \o StrReplace(Tail(s), old, new)

\* The pre-processing shared by the detectors: strip().lower().replace("__", "_")
DetectorKey(col) == StrReplace(Lower(Strip(col)), <<"_","_">>, <<"_">>)

_norm_col(col) ==
    StrReplace(StrReplace(Lower(Strip(col)), <<" ">>, <<"_">>), <<"_","_">>, <<"_">>)

(***************************************************************************)
(* Cells and numbers.                                                      *)
(***************************************************************************)
NaN == [k |-> "nan"]

None == [k |-> "none"]

NA == [k |-> "na"]

Abs(n) == IF n < 0 THEN -n ELSE n

RECURSIVE GCD(_, _)
GCD(a, b) == IF b = 0 THEN a ELSE GCD(b, a % b)

\* The float n/d in lowest terms, d > 0.
PyFloat(n, d) ==
    LET g == GCD(Abs(n), d)
    IN  [k |-> "float", n |-> n \div g, d |-> d \div g]

PyInt(n) == [k |-> "int", n |-> n]

PyStr(s) == [k |-> "str", s |-> s]

\* pd.isna / Series.isna on one cell
IsNA(c) == c.k \in {"nan", "none", "na"}

RECURSIVE Pow10(_)
Pow10(e) == IF e = 0 THEN 1 ELSE 10 * Pow10(e - 1)

\* Decimal digits of a natural number.
RECURSIVE NatDigits(_)
NatDigits(n) ==
    IF n < 10 THEN <<DigitChars[n + 1]>>
    ELSE NatDigits(n \div 10) \o <<DigitChars[(n % 10) + 1]>>

\* The natural number a digit string denotes (0 for the empty string).
RECURSIVE DigitsNat(_)
DigitsNat(s) ==
    IF s = <<>> THEN 0
    ELSE 10 * DigitsNat(SubSeq(s, 1, Len(s) - 1)) + DigitVal(s[Len(s)])

\* Left-pads a digit string with zeros to the given width.
RECURSIVE ZeroPad(_, _)
ZeroPad(s, width) == IF Len(s) >= width THEN s ELSE ZeroPad(<<"0">> \o s, width)

\* Round-half-to-even of a / b for a >= 0, b > 0 (Python's round and format).
RoundHalfEven(a, b) ==
    LET q == a \div b
        r == a % b
    IN  IF 2 * r > b THEN q + 1
        ELSE IF 2 * r < b THEN q
        ELSE IF q % 2 = 0 THEN q ELSE q + 1

\* The ',' option of the format mini-language: groups of three from the right.
RECURSIVE GroupThousands(_)
GroupThousands(ds) ==
    IF Len(ds) <= 3 THEN ds
    ELSE GroupThousands(SubSeq(ds, 1, Len(ds) - 3))
         \o <<",">> \o SubSeq(ds, Len(ds) - 2, Len(ds))

\* f"{x:.{decimals}f}" and f"{x:,.{decimals}f}" of the number x.n / x.d
FormatFixed(x, decimals, grouping) ==
    LET scale  == Pow10(decimals)
        scaled == RoundHalfEven(Abs(x.n) * scale, x.d)
        ip     == NatDigits(scaled \div scale)
        fp     == ZeroPad(NatDigits(scaled % scale), decimals)
        sign   == IF x.n < 0 THEN <<"-">> ELSE <<>>
    IN  sign \o (IF grouping THEN GroupThousands(ip) ELSE ip)
             \o (IF decimals > 0 THEN <<".">> \o fp ELSE <<>>)

\* The least e <= 4 with d dividing 10^e; floats whose decimal expansion does
\* not terminate within four places have no modelled repr.
DecimalPlaces(d) == CHOOSE e \in 0..4 :
    /\ Pow10(e) % d = 0
    /\ \A f \in 0..(e - 1) : Pow10(f) % d # 0

\* repr(float): shortest decimal form, always with a fractional part.
FloatRepr(x) ==
    LET e    == DecimalPlaces(x.d)
        m    == Abs(x.n) * (Pow10(e) \div x.d)
        sign == IF x.n < 0 THEN <<"-">> ELSE <<>>
    IN  IF e = 0
        THEN sign \o NatDigits(m) \o <<".", "0">>
        ELSE sign \o NatDigits(m \div Pow10(e)) \o <<".">>
                  \o ZeroPad(NatDigits(m % Pow10(e)), e)

\* Series.astype(str) on one cell (pandas 1.x / 2.x: str() of the object).
AsStr(c) ==
    CASE c.k = "str"   -> c.s
      [] c.k = "int"   -> (IF c.n < 0 THEN <<"-">> ELSE <<>>) \o NatDigits(Abs(c.n))
      [] c.k = "float" -> FloatRepr(c)
      [] c.k = "nan"   -> <<"n","a","n">>
      [] c.k = "none"  -> <<"N","o","n","e">>
      [] c.k = "na"    -> <<"<","N","A",">">>

AllDigits(s) == \A i \in 1..Len(s) : IsDigit(s[i])

\* Parsing of a text cell by pd.to_numeric: optional sign, digits with an
\* optional decimal point, surrounding whitespace ignored; anything else
\* is not coercible.
ParseNumber(s) ==
    LET t    == Strip(s)
        neg  == t # <<>> /\ Head(t) = "-"
        u    == IF t # <<>> /\ Head(t) \in {"-", "+"} THEN Tail(t) ELSE t
        dots == {i \in 1..Len(u) : u[i] = "."}
        p    == IF dots = {} THEN Len(u) + 1 ELSE CHOOSE i \in dots : TRUE
        ip   == SubSeq(u, 1, p - 1)
        fp   == SubSeq(u, p + 1, Len(u))
        mag  == DigitsNat(ip \o fp)
    IN  IF /\ Cardinality(dots) <= 1
           /\ AllDigits(ip) /\ AllDigits(fp)
           /\ Len(ip) + Len(fp) > 0
        THEN PyFloat(IF neg THEN -mag ELSE mag, Pow10(Len(fp)))
        ELSE NaN

\* pd.to_numeric(series, errors="coerce") on one cell
ToNumeric(c) ==
    CASE c.k = "int"   -> PyFloat(c.n, 1)
      [] c.k = "float" -> c
      [] c.k = "str"   -> ParseNumber(c.s)
      [] OTHER         -> NaN

(***************************************************************************)
(* Formatadores BR.                                                        *)
(***************************************************************************)
\* .replace(",", "X").replace(".", ",").replace("X", ".")
SwapSeparators(s) ==
    StrReplace(StrReplace(StrReplace(s, <<",">>, <<"X">>), <<".">>, <<",">>), <<"X">>, <<".">>)

fmt_money_br(x) ==
    IF IsNA(x) THEN <<>>
    ELSE SwapSeparators(<<"R","$"," ">> \o FormatFixed(x, 2, TRUE))

fmt_percent_br(x) ==
    IF IsNA(x) THEN <<>>
    ELSE StrReplace(FormatFixed(x, 2, FALSE) \o <<"%">>, <<".">>, <<",">>)

fmt_number_br(x, decimals) ==
    IF IsNA(x) THEN <<>>
    ELSE SwapSeparators(FormatFixed(x, decimals, TRUE))

fmt_int_br(x) ==
    IF IsNA(x) THEN <<>>
    ELSE LET r == RoundHalfEven(Abs(x.n), x.d)
             sign == IF x.n < 0 /\ r > 0 THEN <<"-">> ELSE <<>>
         IN  StrReplace(sign \o GroupThousands(NatDigits(r)), <<",">>, <<".">>)

(***************************************************************************)
(* Detectores de colunas.                                                  *)
(***************************************************************************)
money_keys == {
    <<"o","r","c","a","m","e","n","t","o">>,
    <<"o","r",CCedil,"a","m","e","n","t","o">>,
    <<"i","n","v","e","s","t","i","m","e","n","t","o">>,
    <<"r","e","c","e","i","t","a">>,
    <<"v","e","n","d","a","s","_","b","r","u","t","a","s">>,
    <<"p","o","t","e","n","c","i","a","l","_","r","e","c","e","i","t","a">>,
    <<"p","o","t","e","n","c","i","a","l"," ","r","e","c","e","i","t","a">>,
    <<"i","m","p","a","c","t","o","_","e","s","t","i","m","a","d","o">>,
    <<"i","m","p","a","c","t","o"," ","e","s","t","i","m","a","d","o">>,
    <<"f","a","t","u","r","a","m","e","n","t","o">>,
    <<"v","e","n","d","a","s"," ","(","r","$",")">>
}

\* _is_money_col with 'share' among its keywords.
is_money_col_with_share(col_name) ==
    LET c == Lower(Strip(col_name))
    IN  \E k \in money_keys \cup {<<"s","h","a","r","e">>} : Contains(c, k)

_is_money_col(col_name) ==
    LET c == Lower(Strip(col_name))
    IN  \E key \in money_keys : Contains(c, key)

_is_id_col(col_name) ==
    LET c == DetectorKey(col_name)
    IN  \/ c = <<"i","d">>
        \/ c = <<"i","d","_","a","n","u","n","c","i","o">>
        \/ c = <<"i","d","_","a","n",UAcute,"n","c","i","o">>
        \/ c = <<"i","d"," ","c","a","m","p","a","n","h","a">>
        \/ c = <<"i","d","_","c","a","m","p","a","n","h","a">>
        \/ EndsWith(c, <<"_","i","d">>)
        \/ StartsWith(c, <<"i","d","_">>)
        \/ Contains(c, <<"i","d"," ","a","n","u","n","c","i","o">>)
        \/ Contains(c, <<"i","d"," ","a","n",UAcute,"n","c","i","o">>)
        \/ Contains(c, <<"i","d"," ","d","o"," ","a","n","u","n","c","i","o">>)
        \/ Contains(c, <<"i","d"," ","d","o"," ","a","n",UAcute,"n","c","i","o">>)
        \/ Contains(c, <<"i","d"," ","c","a","m","p","a","n","h","a">>)

_PERCENT_COLS == {
    <<"a","c","o","s"," ","r","e","a","l">>,
    <<"a","c","o","s","_","r","e","a","l">>,
    <<"c","p","i","_","s","h","a","r","e">>,
    <<"c","p","i"," ","s","h","a","r","e">>,
    <<"c","p","i","_","c","u","m">>,
    <<"c","p","i"," ","c","u","m">>,
    <<"c","o","n","_","v","i","s","i","t","a","s","_","v","e","n","d","a","s">>,
    <<"c","o","n"," ","v","i","s","i","t","a","s"," ","v","e","n","d","a","s">>,
    <<"c","o","n","v","_","v","i","s","i","t","a","s","_","v","e","n","d","a","s">>,
    <<"c","o","n","v"," ","v","i","s","i","t","a","s"," ","v","e","n","d","a","s">>,
    <<"c","o","n","v","_","v","i","s","i","t","a","s","_","c","o","m","p","r","a","d","o","r","e","s">>,
    <<"c","o","n","v"," ","v","i","s","i","t","a","s"," ","c","o","m","p","r","a","d","o","r","e","s">>,
    <<"p","e","r","d","i","d","a","s","_","o","r","c">>,
    <<"p","e","r","d","i","d","a","s","_","c","l","a","s","s">>,
    <<"c","v","r">>,
    <<"c","v","r","\n","(","c","o","n","v","e","r","s","i","o","n"," ","r","a","t","e",")">>
}

_is_percent_col(col_name) == DetectorKey(col_name) \in _PERCENT_COLS

count_targets == {
    <<"i","m","p","r","e","s","s","o","e","s">>,
    <<"i","m","p","r","e","s","s",OTilde,"e","s">>,
    <<"i","m","p","r","e","s","s","i","o","n","s">>,
    <<"c","l","i","q","u","e","s">>,
    <<"c","l","i","c","k","s">>,
    <<"v","i","s","i","t","a","s">>,
    <<"v","i","s","i","t","s">>,
    <<"q","t","d","_","v","e","n","d","a","s">>,
    <<"q","t","d"," ","v","e","n","d","a","s">>,
    <<"q","u","a","n","t","i","d","a","d","e","_","v","e","n","d","a","s">>,
    <<"q","u","a","n","t","i","d","a","d","e"," ","v","e","n","d","a","s">>,
    <<"o","r","d","e","r","s">>,
    <<"p","e","d","i","d","o","s">>
}

_is_count_col(col_name) ==
    LET c == DetectorKey(col_name)
    IN  IF \/ Contains(c, <<"c","o","n","v","_">>)
           \/ StartsWith(c, <<"c","o","n","_">>)
           \/ Contains(c, <<"c","o","n","v","e","r","s">>)
           \/ Contains(c, <<"c","v","r">>)
           \/ Contains(c, <<"t","a","x","a">>)
        THEN FALSE
        ELSE \/ c \in count_targets
             \/ EndsWith(c, <<"_","i","m","p","r","e","s","s","o","e","s">>)
             \/ EndsWith(c, <<"_","i","m","p","r","e","s","s",OTilde,"e","s">>)
             \/ EndsWith(c, <<"_","i","m","p","r","e","s","s","i","o","n","s">>)
             \/ EndsWith(c, <<"_","c","l","i","q","u","e","s">>)
             \/ EndsWith(c, <<"_","c","l","i","c","k","s">>)
             \/ EndsWith(c, <<"_","v","i","s","i","t","a","s">>)
             \/ EndsWith(c, <<"_","v","i","s","i","t","s">>)
             \/ Contains(c, <<"q","t","d","_","v","e","n","d","a","s">>)
             \/ Contains(c, <<"q","u","a","n","t","i","d","a","d","e","_","v","e","n","d","a","s">>)

\* The name test of format_table_br that keeps a column as text.
IsTextByName(col) ==
    LET lc == Lower(Strip(col))
    IN  \/ Contains(lc, <<"n","o","m","e">>)
        \/ Contains(lc, <<"c","a","m","p","a","n","h","a">>)
        \/ Contains(lc, <<"a","c","a","o">>)
        \/ Contains(lc, <<"a",CCedil,ATilde,"o">>)
        \/ Contains(lc, <<"r","e","c","o","m","e","n","d">>)
        \/ Contains(lc, <<"e","s","t","r","a","t","e","g">>)
        \/ Contains(lc, <<"e","s","t","r","a","t",EAcute,"g">>)

(***************************************************************************)
(* Column names of the model.  The name tests depend on the name alone, so *)
(* they are tabulated once over the names a table can carry.               *)
(***************************************************************************)
\* Names of the tables of SpecView.
ViewNames == {
    <<"R","O","A","S"," ","o","b","j","e","t","i","v","o">>,
    <<"R","O","A","S"," ","o","b","j","e","t","i","v","o"," ","N">>,
    <<"R","O","A","S","_","O","b","j","e","t","i","v","o">>,
    <<"R","O","A","S","_","R","e","a","l">>,
    <<"r","o","a","s"," ","r","e","a","l">>,
    <<"A","C","O","S","_","R","e","a","l">>,
    <<"R","O","A","S">>,
    <<"C","P","I","_","S","h","a","r","e">>,
    <<"A","c","a","o","_","R","e","c","o","m","e","n","d","a","d","a">>,
    <<"C","o","n","f","i","a","n","c","a","_","D","a","d","o">>,
    <<"M","o","t","i","v","o">>,
    <<"A","C","O","S"," ","O","b","j","e","t","i","v","o">>
}

\* Names that probe the detection and renaming of cost-ratio columns.
AcosNames == {
    <<"A","C","O","S"," ","O","b","j","e","t","i","v","o">>,
    <<"A","C","O","S","_","O","b","j","e","t","i","v","o","_","N">>,
    <<"A","C","O","S"," ","O","b","j","e","t","i","v","o"," ","N">>,
    <<"A","C","O","S","_","_","O","b","j","e","t","i","v","o","_","_","N">>,
    <<" ","a","c","o","s"," ","o","b","j","e","t","i","v","o"," ","n"," ">>,
    <<"A","C","O","S"," ","O","b","j","e","t","i","v","o"," ","N","o","v","o">>,
    <<"A","C","O","S","_","O","b","j","e","t","i","v","o","_","N","e","t">>,
    <<"O","b","j","e","t","i","v","o"," ","A","C","O","S","_","N">>,
    <<"A","C","O","S","_","N"," ","O","b","j","e","t","i","v","o">>,
    <<"A","C","O","S","_","O","b","j","e","t","i","v","o">>,
    <<"A","C","O","S","_","R","e","a","l">>,
    <<"O","b","j","e","t","i","v","o">>
}

\* One name per branch of format_table_br, and a cost-ratio column.
FormatNames == {
    <<"I","D","_","C","a","m","p","a","n","h","a">>,
    <<"N","o","m","e">>,
    <<"I","n","v","e","s","t","i","m","e","n","t","o">>,
    <<"C","P","I","_","S","h","a","r","e">>,
    <<"C","l","i","q","u","e","s">>,
    <<"R","O","A","S">>,
    <<"A","C","O","S"," ","O","b","j","e","t","i","v","o">>
}

\* Names that probe the three name predicates of the numeric branches: the
\* percent names, the money keywords, the count targets and suffixes, the
\* names the conversion guard of _is_count_col rejects, and names that join a
\* money keyword with a count suffix.
ClassifyNames == {
    <<"a","c","o","s"," ","r","e","a","l">>,
    <<"A","C","O","S","_","R","e","a","l">>,
    <<"C","P","I","_","S","h","a","r","e">>,
    <<"c","p","i"," ","s","h","a","r","e">>,
    <<"C","P","I","_","C","u","m">>,
    <<"c","p","i"," ","c","u","m">>,
    <<"C","o","n","_","V","i","s","i","t","a","s","_","V","e","n","d","a","s">>,
    <<"c","o","n"," ","v","i","s","i","t","a","s"," ","v","e","n","d","a","s">>,
    <<"C","o","n","v","_","V","i","s","i","t","a","s","_","V","e","n","d","a","s">>,
    <<"c","o","n","v"," ","v","i","s","i","t","a","s"," ","v","e","n","d","a","s">>,
    <<"C","o","n","v","_","V","i","s","i","t","a","s","_","C","o","m","p","r","a","d","o","r","e","s">>,
    <<"c","o","n","v"," ","v","i","s","i","t","a","s"," ","c","o","m","p","r","a","d","o","r","e","s">>,
    <<"P","e","r","d","i","d","a","s","_","O","r","c">>,
    <<"P","e","r","d","i","d","a","s","_","C","l","a","s","s">>,
    <<"C","V","R">>,
    <<"C","V","R","\n","(","C","o","n","v","e","r","s","i","o","n"," ","R","a","t","e",")">>,
    <<"C","P","I","_","_","S","h","a","r","e">>,
    <<"O","r","c","a","m","e","n","t","o">>,
    <<"O","r",CCedil,"a","m","e","n","t","o">>,
    <<"I","n","v","e","s","t","i","m","e","n","t","o">>,
    <<"R","e","c","e","i","t","a">>,
    <<"V","e","n","d","a","s","_","B","r","u","t","a","s">>,
    <<"P","o","t","e","n","c","i","a","l","_","R","e","c","e","i","t","a">>,
    <<"P","o","t","e","n","c","i","a","l"," ","R","e","c","e","i","t","a">>,
    <<"I","m","p","a","c","t","o","_","E","s","t","i","m","a","d","o">>,
    <<"I","m","p","a","c","t","o"," ","e","s","t","i","m","a","d","o">>,
    <<"F","a","t","u","r","a","m","e","n","t","o">>,
    <<"V","e","n","d","a","s"," ","(","R","$",")">>,
    <<"I","m","p","r","e","s","s","o","e","s">>,
    <<"I","m","p","r","e","s","s",OTilde,"e","s">>,
    <<"I","m","p","r","e","s","s","i","o","n","s">>,
    <<"C","l","i","q","u","e","s">>,
    <<"C","l","i","c","k","s">>,
    <<"V","i","s","i","t","a","s">>,
    <<"V","i","s","i","t","s">>,
    <<"Q","t","d","_","V","e","n","d","a","s">>,
    <<"Q","t","d"," ","V","e","n","d","a","s">>,
    <<"Q","u","a","n","t","i","d","a","d","e","_","V","e","n","d","a","s">>,
    <<"Q","u","a","n","t","i","d","a","d","e"," ","V","e","n","d","a","s">>,
    <<"O","r","d","e","r","s">>,
    <<"P","e","d","i","d","o","s">>,
    <<"T","o","t","a","l","_","I","m","p","r","e","s","s","o","e","s">>,
    <<"T","o","t","a","l","_","C","l","i","q","u","e","s">>,
    <<"T","o","t","a","l","_","V","i","s","i","t","a","s">>,
    <<"T","a","x","a","_","C","l","i","q","u","e","s">>,
    <<"C","o","n","v","e","r","s","a","o","_","V","i","s","i","t","a","s">>,
    <<"I","n","v","e","s","t","i","m","e","n","t","o","_","C","l","i","q","u","e","s">>,
    <<"R","e","c","e","i","t","a","_","V","i","s","i","t","a","s">>,
    <<"F","a","t","u","r","a","m","e","n","t","o","_","I","m","p","r","e","s","s","o","e","s">>,
    <<"Q","t","d","_","V","e","n","d","a","s","_","R","e","c","e","i","t","a">>,
    <<"V","e","n","d","a","s">>,
    <<"R","O","A","S">>
}

\* Names of the tables of Spec.
PipelineNames == {
    <<"A","C","O","S"," ","O","b","j","e","t","i","v","o">>,
    <<"R","O","A","S"," ","o","b","j","e","t","i","v","o">>,
    <<"R","O","A","S","_","R","e","a","l">>,
    <<"C","P","I","_","S","h","a","r","e">>,
    <<"I","D","_","C","a","m","p","a","n","h","a">>,
    <<"M","o","t","i","v","o">>
}

RoasObjetivo == <<"R","O","A","S"," ","o","b","j","e","t","i","v","o">>

RoasObjetivoN == <<"R","O","A","S"," ","o","b","j","e","t","i","v","o"," ","N">>

\* _roas_col_name_from_acos_col testing the end of the name only.
roas_col_name_by_suffix(col_name) ==
    LET lc == DetectorKey(col_name)
    IN  IF \/ EndsWith(lc, <<"_","n">>)
           \/ EndsWith(lc, <<"o","b","j","e","t","i","v","o"," ","n">>)
        THEN RoasObjetivoN
        ELSE RoasObjetivo

_roas_col_name_from_acos_col(col_name) ==
    LET lc == DetectorKey(col_name)
    IN  IF \/ EndsWith(lc, <<"_","n">>)
           \/ Contains(lc, <<"o","b","j","e","t","i","v","o","_","n">>)
           \/ Contains(lc, <<"o","b","j","e","t","i","v","o"," ","n">>)
        THEN RoasObjetivoN
        ELSE RoasObjetivo

\* The detection test of replace_acos_obj_with_roas_obj.
IsAcosObjetivo(col) ==
    LET lc == Lower(Strip(col))
    IN  Contains(lc, <<"a","c","o","s">>) /\ Contains(lc, <<"o","b","j","e","t","i","v","o">>)

NameUniverse ==
    ViewNames \cup AcosNames \cup FormatNames \cup PipelineNames \cup ClassifyNames
        \cup {RoasObjetivo, RoasObjetivoN}

ColumnInfo ==
    [n \in NameUniverse |->
        [norm       |-> _norm_col(n),
         is_id      |-> _is_id_col(n),
         is_text    |-> IsTextByName(n),
         is_money   |-> _is_money_col(n),
         is_percent |-> _is_percent_col(n),
         is_count   |-> _is_count_col(n),
         is_acos    |-> IsAcosObjetivo(n),
         roas_name  |-> _roas_col_name_from_acos_col(n)]]

(***************************************************************************)
(* pandas primitives on tables.                                            *)
(***************************************************************************)
\* DataFrame.empty: no column or no row.
Empty(t) == Len(t) = 0 \/ Len(t[1].cells) = 0

\* list(df.columns)
Columns(t) == [i \in 1..Len(t) |-> t[i].name]

InList(x, list) == \E i \in 1..Len(list) : list[i] = x

\* The number of columns carrying the label.
LabelCount(t, label) == Cardinality({i \in 1..Len(t) : t[i].name = label})

\* df.drop(columns=labels, errors="ignore"): every column carrying a label goes.
DropLabels(t, labels) ==
    LET keep(col) == col.name \notin labels
    IN  SelectSeq(t, keep)

\* df[cols]: for each label in turn, every column of df carrying it.
RECURSIVE SelectLabels(_, _)
SelectLabels(t, cols) ==
    IF cols = <<>> THEN <<>>
    ELSE LET has(col) == col.name = Head(cols)
         IN  SelectSeq(t, has) \o SelectLabels(t, Tail(cols))

\* df.rename(columns=renames), renames a function from old labels to new ones.
RenameLabels(t, renames) ==
    [i \in 1..Len(t) |->
        IF t[i].name \in DOMAIN renames
        THEN [t[i] EXCEPT !.name = renames[t[i].name]]
        ELSE t[i]]

\* list.index(x), 1-based
IndexOf(list, x) == CHOOSE i \in 1..Len(list) :
    list[i] = x /\ \A j \in 1..(i - 1) : list[j] # x

\* list.remove(x): the first occurrence goes.
RemoveFirst(list, x) ==
    LET i == IndexOf(list, x)
    IN  SubSeq(list, 1, i - 1) \o SubSeq(list, i + 1, Len(list))

\* list.insert(idx, x) with the 0-based idx of Python.
InsertAt(list, idx, x) ==
    SubSeq(list, 1, idx) \o <<x>> \o SubSeq(list, idx + 1, Len(list))

\* df.copy(): a new object with the same contents.  A call works on a heap of
\* table objects and yields the heap it leaves and the reference it returns
\* (0 when it raised).
\* DataFrameCopy that hands back the same object.
same_object(heap, ref) == [heap |-> heap, ret |-> ref]

DataFrameCopy(heap, ref) == [heap |-> Append(heap, heap[ref]), ret |-> Len(heap) + 1]

(***************************************************************************)
(* Limpeza e ordenacao das tabelas.                                        *)
(***************************************************************************)
\* _drop_cols_by_norm that drops a target only when another column's
\* normalized name extends it.
drop_cols_when_more_specific(t, targets_norm) ==
    IF Empty(t) THEN t
    ELSE DropLabels(t, {t[i].name : i \in {j \in 1..Len(t) :
            /\ ColumnInfo[t[j].name].norm \in targets_norm
            /\ \E k \in 1..Len(t) :
                  /\ ColumnInfo[t[k].name].norm # ColumnInfo[t[j].name].norm
                  /\ StartsWith(ColumnInfo[t[k].name].norm, ColumnInfo[t[j].name].norm)}})

_drop_cols_by_norm(t, targets_norm) ==
    IF Empty(t) THEN t
    ELSE DropLabels(t, {t[i].name : i \in {j \in 1..Len(t) : ColumnInfo[t[j].name].norm \in targets_norm}})

_keep_first_by_prefix(t, prefixes_norm) ==
    IF Empty(t) THEN t
    ELSE LET hit(c) == \E p \in prefixes_norm : StartsWith(ColumnInfo[c].norm, p)
             hits   == SelectSeq(Columns(t), hit)
         IN  IF Len(hits) <= 1 THEN t
             ELSE DropLabels(t, {hits[i] : i \in 2..Len(hits)})

\* _reorder_next_to that puts right_col in front of left_col.
reorder_in_front_of(t, left_col, right_col) ==
    IF Empty(t) THEN t
    ELSE IF ~InList(left_col, Columns(t)) \/ ~InList(right_col, Columns(t)) THEN t
    ELSE LET cols == RemoveFirst(Columns(t), right_col)
         IN  IF ~InList(left_col, cols) THEN t
             ELSE SelectLabels(t, InsertAt(cols, IndexOf(cols, left_col) - 1, right_col))

_reorder_next_to(t, left_col, right_col) ==
    IF Empty(t) THEN t
    ELSE IF ~InList(left_col, Columns(t)) \/ ~InList(right_col, Columns(t)) THEN t
    ELSE LET cols == RemoveFirst(Columns(t), right_col)
         IN  IF ~InList(left_col, cols) THEN t
             ELSE SelectLabels(t, InsertAt(cols, IndexOf(cols, left_col), right_col))

ActionBlock == <<<<"A","c","a","o","_","R","e","c","o","m","e","n","d","a","d","a">>,
                 <<"C","o","n","f","i","a","n","c","a","_","D","a","d","o">>,
                 <<"M","o","t","i","v","o">>>>

\* _enforce_action_block that puts the block in front of the other columns.
action_block_first(t) ==
    IF Empty(t) THEN t
    ELSE LET present(c) == InList(c, Columns(t))
             ordered    == SelectSeq(ActionBlock, present)
             other(c)   == ~InList(c, ordered)
             rest       == SelectSeq(Columns(t), other)
         IN  IF ordered = <<>> THEN t ELSE SelectLabels(t, ordered \o rest)

_enforce_action_block(t) ==
    IF Empty(t) THEN t
    ELSE LET present(c) == InList(c, Columns(t))
             ordered    == SelectSeq(ActionBlock, present)
             other(c)   == ~InList(c, ordered)
             rest       == SelectSeq(Columns(t), other)
         IN  IF ordered = <<>> THEN t ELSE SelectLabels(t, rest \o ordered)

RoasObjetivoPrefix == <<"r","o","a","s","_","o","b","j","e","t","i","v","o">>

_reorder_roas_acos(t) ==
    IF Empty(t) THEN t
    ELSE LET t1 == _keep_first_by_prefix(t,
                       {RoasObjetivoPrefix, <<"r","o","a","s","_","o","b","j","e","t","i","v","o","_","n">>})
             isObj(c)  == StartsWith(ColumnInfo[c].norm, RoasObjetivoPrefix)
             isReal(c) == ColumnInfo[c].norm = <<"r","o","a","s","_","r","e","a","l">>
             isAcos(c) == ColumnInfo[c].norm = <<"a","c","o","s","_","r","e","a","l">>
             roas_obj_cols  == SelectSeq(Columns(t1), isObj)
             roas_real_cols == SelectSeq(Columns(t1), isReal)
             acos_real_cols == SelectSeq(Columns(t1), isAcos)
             t2 == IF roas_obj_cols # <<>> /\ roas_real_cols # <<>>
                   THEN _reorder_next_to(t1, roas_obj_cols[1], roas_real_cols[1])
                   ELSE t1
         IN  IF roas_real_cols # <<>> /\ acos_real_cols # <<>>
             THEN _reorder_next_to(t2, roas_real_cols[1], acos_real_cols[1])
             ELSE t2

CpiTargets == {<<"c","p","i","_","s","h","a","r","e">>, <<"c","p","i","_","c","u","m">>, <<"c","p","i","_","8","0">>}

RoasGenericTargets == {<<"r","o","a","s">>}

prepare_df_for_view(heap, ref, drop_cpi_cols, drop_roas_generic) ==
    IF Empty(heap[ref]) THEN [heap |-> heap, ret |-> ref]
    ELSE LET c    == DataFrameCopy(heap, ref)
             out0 == c.heap[c.ret]
             out1 == IF drop_cpi_cols THEN _drop_cols_by_norm(out0, CpiTargets) ELSE out0
             out2 == IF drop_roas_generic
                     THEN _drop_cols_by_norm(out1, RoasGenericTargets)
                     ELSE out1
             out3 == _enforce_action_block(_reorder_roas_acos(out2))
         IN  [heap |-> Append(c.heap, out3), ret |-> Len(c.heap) + 1]

(***************************************************************************)
(* ACOS objetivo -> ROAS objetivo.                                         *)
(***************************************************************************)
\* _acos_value_to_roas without the percentage branch: every value is taken as
\* a fraction.
acos_value_to_roas_fraction_only(ac) ==
    IF IsNA(ac) THEN NA
    ELSE IF ac.n <= 0 THEN NA
    ELSE PyFloat(ac.d, ac.n)

\* ac is a cell of the coerced series: NaN or a number.
_acos_value_to_roas(ac) ==
    IF IsNA(ac) THEN NA
    ELSE IF ac.n = 0 THEN NA
    ELSE LET acos_frac == IF ac.n > 2 * ac.d THEN PyFloat(ac.n, ac.d * 100) ELSE ac
         IN  IF acos_frac.n <= 0 THEN NA
             ELSE PyFloat(acos_frac.d, acos_frac.n)

\* df[col] = cells, for a label one column carries: written into the object.
SetColumn(heap, ref, i, cells) == [heap EXCEPT ![ref][i].cells = cells]

\* The loop over list(df2.columns), from position i on.  pd.to_numeric of a
\* label that several columns carry gets a DataFrame and raises TypeError.
RECURSIVE ReplaceLoop(_, _, _)
ReplaceLoop(heap, df2, i) ==
    IF i > Len(heap[df2]) THEN [heap |-> heap, ret |-> df2]
    ELSE LET col == heap[df2][i]
         IN  IF ~ColumnInfo[col.name].is_acos THEN ReplaceLoop(heap, df2, i + 1)
             ELSE IF LabelCount(heap[df2], col.name) > 1 THEN [heap |-> heap, ret |-> 0]
             ELSE LET ser == [j \in 1..Len(col.cells) |-> ToNumeric(col.cells[j])]
                      new == [j \in 1..Len(ser) |-> _acos_value_to_roas(ser[j])]
                  IN  ReplaceLoop(SetColumn(heap, df2, i, new), df2, i + 1)

replace_acos_obj_with_roas_obj(heap, ref) ==
    IF Empty(heap[ref]) THEN [heap |-> heap, ret |-> ref]
    ELSE LET c       == DataFrameCopy(heap, ref)
             done    == ReplaceLoop(c.heap, c.ret, 1)
             labels  == {n \in {heap[ref][i].name : i \in 1..Len(heap[ref])} : ColumnInfo[n].is_acos}
             renames == [n \in labels |-> ColumnInfo[n].roas_name]
         IN  IF done.ret = 0 \/ labels = {} THEN done
             ELSE [heap |-> Append(done.heap, RenameLabels(done.heap[done.ret], renames)),
                   ret  |-> Len(done.heap) + 1]

(***************************************************************************)
(* Formatacao unificada.                                                   *)
(***************************************************************************)
NanText == <<"n","a","n">>

\* Series.astype(str).replace({"nan": ""}) on one cell
AsText(c) == LET s == AsStr(c) IN PyStr(IF s = NanText THEN <<>> ELSE s)

\* Series.str.replace(r"\.0$", "", regex=True)
StripDotZero(s) ==
    IF EndsWith(s, <<".", "0">>) THEN SubSeq(s, 1, Len(s) - 2) ELSE s

\* StripNonDigits that removes nothing.
keep_every_char(s) == s

\* Series.str.replace(r"\D", "", regex=True)
StripNonDigits(s) == SelectSeq(s, IsDigit)

\* serie_num.max(skipna=True): NaN when no cell is a number.
RECURSIVE SeriesMax(_)
SeriesMax(ser) ==
    IF ser = <<>> THEN NaN
    ELSE LET m == SeriesMax(Tail(ser))
             x == Head(ser)
         IN  IF IsNA(x) THEN m
             ELSE IF IsNA(m) THEN x
             ELSE IF x.n * m.d >= m.n * x.d THEN x ELSE m

\* Series.notna().sum()
CountNotNA(ser) == Cardinality({j \in 1..Len(ser) : ~IsNA(ser[j])})

\* NotNumeric with the threshold at one half.
not_numeric_below_half(non_null, num_ok) == non_null = 0 \/ 100 * num_ok < 50 * non_null

\* The test that keeps a column as text: no non-missing cell, or fewer than
\* 60% of the non-missing cells coerced to a number.
NotNumeric(non_null, num_ok) == non_null = 0 \/ 100 * num_ok < 60 * non_null

\* ScalePercent deciding cell by cell: each number at most 2 is scaled.
ScalePercentPerCell(serie_num) ==
    [j \in 1..Len(serie_num) |->
        IF IsNA(serie_num[j]) THEN NaN
        ELSE IF serie_num[j].n <= 2 * serie_num[j].d
        THEN PyFloat(serie_num[j].n * 100, serie_num[j].d)
        ELSE serie_num[j]]

\* The scale correction of a percent column: times 100 when the largest
\* number of the column is at most 2.
ScalePercent(serie_num) ==
    LET vmax == SeriesMax(serie_num)
    IN  IF ~IsNA(vmax) /\ vmax.n <= 2 * vmax.d
        THEN [j \in 1..Len(serie_num) |->
                 IF IsNA(serie_num[j]) THEN NaN
                 ELSE PyFloat(serie_num[j].n * 100, serie_num[j].d)]
        ELSE serie_num

\* The identifier branch on one cell: astype(str), "nan" to "", the trailing
\* ".0" removed, then every non-digit removed.
IdText(c) == PyStr(StripNonDigits(StripDotZero(AsText(c).s)))

\* The body of the loop of format_table_br for a label one column carries:
\* the cells written back into df_fmt[col].
FormatCells(col_name, cells) ==
    LET serie_num == [j \in 1..Len(cells) |-> ToNumeric(cells[j])]
        non_null  == CountNotNA(cells)
        num_ok    == CountNotNA(serie_num)
        scaled    == ScalePercent(serie_num)
    IN  IF ColumnInfo[col_name].is_id
        THEN [j \in 1..Len(cells) |-> IdText(cells[j])]
        ELSE IF ColumnInfo[col_name].is_text
        THEN [j \in 1..Len(cells) |-> AsText(cells[j])]
        ELSE IF NotNumeric(non_null, num_ok)
        THEN [j \in 1..Len(cells) |-> AsText(cells[j])]
        ELSE IF ColumnInfo[col_name].is_money
        THEN [j \in 1..Len(cells) |-> PyStr(fmt_money_br(serie_num[j]))]
        ELSE IF ColumnInfo[col_name].is_percent
        THEN [j \in 1..Len(cells) |-> PyStr(fmt_percent_br(scaled[j]))]
        ELSE IF ColumnInfo[col_name].is_count
        THEN [j \in 1..Len(cells) |-> PyStr(fmt_int_br(serie_num[j]))]
        ELSE [j \in 1..Len(cells) |-> PyStr(fmt_number_br(serie_num[j], 2))]

\* The loop over df_fmt.columns, from position i on.  For a label several
\* columns carry, df_fmt[col] is a DataFrame: the identifier branch raises
\* AttributeError (.str), the text-by-name branch converts each of them, and
\* pd.to_numeric raises TypeError.
RECURSIVE FormatLoop(_, _, _)
FormatLoop(heap, df_fmt, i) ==
    IF i > Len(heap[df_fmt]) THEN [heap |-> heap, ret |-> df_fmt]
    ELSE LET col == heap[df_fmt][i]
         IN  IF LabelCount(heap[df_fmt], col.name) > 1
                /\ (ColumnInfo[col.name].is_id \/ ~ColumnInfo[col.name].is_text)
             THEN [heap |-> heap, ret |-> 0]
             ELSE FormatLoop(SetColumn(heap, df_fmt, i, FormatCells(col.name, col.cells)),
                             df_fmt, i + 1)

format_table_br(heap, ref) ==
    IF Empty(heap[ref]) THEN [heap |-> heap, ret |-> ref]
    ELSE LET c == DataFrameCopy(heap, ref)
         IN  FormatLoop(c.heap, c.ret, 1)

(***************************************************************************)
(* The state machine: a caller holds a table (out), passes it to one of    *)
(* the three operations and keeps what the call returns.  snapshot is the  *)
(* argument as it was when the call was made, df the same object as the    *)
(* call left it, op the call made.                                         *)
(***************************************************************************)
MaxCols == 3

MaxRows == 2

MaxMix == 5

MaxPipelineCols == 2

\* Sequences over S of length at most n.
RECURSIVE SeqsUpTo(_, _)
SeqsUpTo(S, n) ==
    IF n = 0 THEN {<<>>}
    ELSE LET shorter == SeqsUpTo(S, n - 1)
         IN  shorter \cup {Append(s, x) : s \in {q \in shorter : Len(q) = n - 1}, x \in S}

NoRepeat(s) == \A i, j \in 1..Len(s) : s[i] = s[j] => i = j

HasUniqueNames(t) == NoRepeat(Columns(t))

\* n copies of x
Repeat(x, n) == [i \in 1..n |-> x]

\* The cell of the single row of the tables of SpecView.
ViewCell == PyFloat(1, 2)

\* Tables of up to MaxCols uniquely named columns, with one row or with
\* none, and the one-column tables of the names that probe the renaming.
ViewTables ==
    {[i \in 1..Len(names) |-> [name |-> names[i], cells |-> cells]] :
        names \in {s \in SeqsUpTo(ViewNames, MaxCols) : NoRepeat(s)},
        cells \in {<<>>, <<ViewCell>>}}
    \cup {<<[name |-> n, cells |-> <<ViewCell>>]>> : n \in AcosNames}

CellUniverse == {
    NaN, None,
    PyInt(0), PyInt(2), PyInt(25), PyInt(-3),
    PyFloat(1, 2), PyFloat(9, 5), PyFloat(2469, 2), PyFloat(6086561, 1),
    PyStr(<<"a","b","c">>), PyStr(<<"1","2">>)
}

\* One-column tables of up to MaxRows rows over CellUniverse.
CellTables ==
    {<<[name |-> n, cells |-> cells]>> :
        n \in FormatNames, cells \in SeqsUpTo(CellUniverse, MaxRows)}

\* One-column tables of up to MaxMix rows: a texts, b literal "nan" texts,
\* c numbers and d missing cells, in that order.
MixTables ==
    {<<[name |-> n,
        cells |-> Repeat(PyStr(<<"A","B","-","1","2">>), q[1]) \o Repeat(PyStr(NanText), q[2])
                  \o Repeat(PyFloat(1, 2), q[3]) \o Repeat(NaN, q[4])]>> :
        n \in FormatNames,
        q \in {x \in (0..MaxMix) \X (0..MaxMix) \X (0..MaxMix) \X (0..MaxMix) :
                  x[1] + x[2] + x[3] + x[4] <= MaxMix}}

ClassifyCells == {PyInt(25), PyFloat(1, 2), PyFloat(2469, 2)}

\* One-column tables of up to MaxRows numbers under the names that probe
\* the name predicates.
ClassifyTables ==
    {<<[name |-> n, cells |-> cells]>> :
        n \in ClassifyNames, cells \in SeqsUpTo(ClassifyCells, MaxRows)}

PipelineCells == {PyInt(25), NaN}

\* Tables of up to MaxPipelineCols uniquely named columns and one row.
PipelineTables ==
    {[i \in 1..Len(cols) |-> [name |-> cols[i][1], cells |-> <<cols[i][2]>>]] :
        cols \in {s \in SeqsUpTo(PipelineNames \X PipelineCells, MaxPipelineCols) :
                     NoRepeat([i \in 1..Len(s) |-> s[i][1]])}}

Loaded == [fn |-> "load", drop_cpi_cols |-> FALSE, drop_roas_generic |-> FALSE,
           raised |-> FALSE]

Load(tables) ==
    /\ df \in tables
    /\ snapshot = df
    /\ out = df
    /\ op = Loaded

Init == Load(PipelineTables)

InitView == Load(ViewTables)

InitFormat == Load(CellTables \cup MixTables)

InitClassify == Load(ClassifyTables)

\* The caller's view of a call that ran on the heap <<out>> with argument 1.
Return(r, fn, a, b) ==
    /\ snapshot' = out
    /\ df' = r.heap[1]
    /\ out' = IF r.ret = 0 THEN out ELSE r.heap[r.ret]
    /\ op' = [fn |-> fn, drop_cpi_cols |-> a, drop_roas_generic |-> b,
              raised |-> (r.ret = 0)]

Replace == Return(replace_acos_obj_with_roas_obj(<<out>>, 1), "replace", FALSE, FALSE)

Prepare ==
    \E a, b \in BOOLEAN :
        Return(prepare_df_for_view(<<out>>, 1, a, b), "prepare", a, b)

Format == Return(format_table_br(<<out>>, 1), "format", FALSE, FALSE)

Next == Replace \/ Prepare \/ Format

NextView == Replace \/ Prepare

NextFormat == Replace \/ Format

Spec == Init /\ [][Next]_vars

SpecView == InitView /\ [][NextView]_vars

SpecFormat == InitFormat /\ [][NextFormat]_vars

SpecClassify == InitClassify /\ [][NextFormat]_vars

(***************************************************************************)
(* Properties.                                                             *)
(***************************************************************************)
\* The call returned a table: it was made and it did not raise.
Called(fn) == op.fn = fn /\ ~op.raised

\* What the inversion is said to yield for a cell: 100/v for v > 2, 1/v for
\* 0 < v <= 2, the missing marker otherwise.
InversionOf(c) ==
    LET v == ToNumeric(c)
    IN  IF IsNA(v) THEN NA
        ELSE IF v.n <= 0 THEN NA
        ELSE IF v.n > 2 * v.d THEN PyFloat(100 * v.d, v.n)
        ELSE PyFloat(v.d, v.n)

\* C1: after replace_acos_obj_with_roas_obj, every cell of a detected
\* cost-ratio column holds 100/v when the input cell v is above 2, 1/v when
\* 0 < v <= 2, and the missing marker when v is 0, negative, missing or not
\* coercible to a number.
C1_InversionValues ==
    Called("replace") =>
        \A i \in 1..Len(snapshot) :
            ColumnInfo[snapshot[i].name].is_acos =>
                \A j \in 1..Len(snapshot[i].cells) :
                    out[i].cells[j] = InversionOf(snapshot[i].cells[j])

\* A cost-ratio column [25, 0.5] was inverted to [4, 2].
C1_Witness ==
    /\ Called("replace")
    /\ \E i \in 1..Len(snapshot) :
        /\ ColumnInfo[snapshot[i].name].is_acos
        /\ snapshot[i].cells = <<PyInt(25), PyFloat(1, 2)>>
        /\ out[i].cells = <<PyFloat(4, 1), PyFloat(2, 1)>>

\* The table prepare_df_for_view returns for the table t.
Prepared(t, drop_cpi_cols, drop_roas_generic) ==
    LET r == prepare_df_for_view(<<t>>, 1, drop_cpi_cols, drop_roas_generic)
    IN  r.heap[r.ret]

\* C2: prepare_df_for_view applied to its own output, with the same flags,
\* returns that output unchanged, for every input with unique column names.
C2_PrepareIdempotent ==
    (Called("prepare") /\ HasUniqueNames(snapshot)) =>
        Prepared(out, op.drop_cpi_cols, op.drop_roas_generic) = out

NormNames(t) == [i \in 1..Len(t) |-> ColumnInfo[t[i].name].norm]

\* C2 for the inputs in which no two columns share a normalized name.
C2_IdempotentOnDistinctNorms ==
    (Called("prepare") /\ NoRepeat(NormNames(snapshot))) =>
        Prepared(out, op.drop_cpi_cols, op.drop_roas_generic) = out

\* The coerced cells of a column, and the cells that coerced to a number.
Coerced(col) == [j \in 1..Len(col.cells) |-> ToNumeric(col.cells[j])]

Numbers(col) == {j \in 1..Len(col.cells) : ~IsNA(Coerced(col)[j])}

\* The column reaches the numeric branches of format_table_br: it is neither
\* an identifier nor text by name, and at least 60% of its non-missing cells
\* coerce to a number.
IsNumericColumn(col) ==
    /\ ~ColumnInfo[col.name].is_id
    /\ ~ColumnInfo[col.name].is_text
    /\ CountNotNA(col.cells) > 0
    /\ 100 * Cardinality(Numbers(col)) >= 60 * CountNotNA(col.cells)

IsPercentColumn(col) ==
    /\ IsNumericColumn(col)
    /\ ~ColumnInfo[col.name].is_money
    /\ ColumnInfo[col.name].is_percent

Times100(x) == PyFloat(x.n * 100, x.d)

AtMost2(x) == x.n <= 2 * x.d

\* C3: in the output of format_table_br a percent column is scaled as a
\* whole: when every number of the column is at most 2 every cell shows the
\* input times 100, and when some number is above 2 every cell shows the
\* input unchanged.
C3_PercentScaleColumnWide ==
    Called("format") =>
        \A i \in 1..Len(snapshot) :
            IsPercentColumn(snapshot[i]) =>
                LET v == Coerced(snapshot[i])
                IN  IF \A j \in Numbers(snapshot[i]) : AtMost2(v[j])
                    THEN \A j \in Numbers(snapshot[i]) :
                            out[i].cells[j] = PyStr(fmt_percent_br(Times100(v[j])))
                    ELSE \A j \in Numbers(snapshot[i]) :
                            out[i].cells[j] = PyStr(fmt_percent_br(v[j]))

\* A percent column holding a number at most 2 and a number above 2 was
\* formatted with both left unscaled.
C3_Witness ==
    /\ Called("format")
    /\ \E i \in 1..Len(snapshot) :
        /\ IsPercentColumn(snapshot[i])
        /\ snapshot[i].cells = <<PyFloat(1, 2), PyInt(25)>>
        /\ out[i].cells = <<PyStr(<<"0", ",", "5", "0", "%">>),
                            PyStr(<<"2", "5", ",", "0", "0", "%">>)>>

\* A percent column whose numbers are all at most 2 was scaled.
C3_WitnessScaled ==
    /\ Called("format")
    /\ \E i \in 1..Len(snapshot) :
        /\ IsPercentColumn(snapshot[i])
        /\ snapshot[i].cells = <<PyFloat(1, 2), PyFloat(9, 5)>>
        /\ out[i].cells = <<PyStr(<<"5", "0", ",", "0", "0", "%">>),
                            PyStr(<<"1", "8", "0", ",", "0", "0", "%">>)>>

\* The positions of the target-return-ratio columns of a table.
RoasObjetivoCols(t) ==
    {i \in 1..Len(t) : StartsWith(ColumnInfo[t[i].name].norm, RoasObjetivoPrefix)}

First(S) == CHOOSE i \in S : \A j \in S : i <= j

HasColumn(t, col) == \E i \in 1..Len(t) : t[i] = col

\* A flag of the call asks for the column to be dropped.
DropRequested(col) ==
    \/ op.drop_cpi_cols /\ ColumnInfo[col.name].norm \in CpiTargets
    \/ op.drop_roas_generic /\ ColumnInfo[col.name].norm \in RoasGenericTargets

\* The input of the call has a row and several target-return-ratio columns.
SeveralRoasObjetivo ==
    /\ Called("prepare")
    /\ ~Empty(snapshot)
    /\ Cardinality(RoasObjetivoCols(snapshot)) > 1

\* The output keeps one target-return-ratio column, the first of the input.
KeepsFirstRoasObjetivo ==
    /\ Cardinality(RoasObjetivoCols(out)) = 1
    /\ \A i \in RoasObjetivoCols(out) :
          out[i] = snapshot[First(RoasObjetivoCols(snapshot))]

\* C4, to the letter: when the input of prepare_df_for_view has a row and
\* several columns whose normalized name starts with 'roas_objetivo', the
\* output holds exactly one of them, the first of the input, and every other
\* column of the input.
C4_KeepFirstLiteral ==
    SeveralRoasObjetivo =>
        /\ KeepsFirstRoasObjetivo
        /\ \A i \in (1..Len(snapshot)) \ RoasObjetivoCols(snapshot) :
              HasColumn(out, snapshot[i])

\* C4: when the input of prepare_df_for_view has a row and several columns
\* whose normalized name starts with 'roas_objetivo', the output holds
\* exactly one of them, the first of the input, and every other column of
\* the input that no flag of the call asked to drop.
C4_KeepFirst ==
    SeveralRoasObjetivo =>
        /\ KeepsFirstRoasObjetivo
        /\ \A i \in (1..Len(snapshot)) \ RoasObjetivoCols(snapshot) :
              ~DropRequested(snapshot[i]) => HasColumn(out, snapshot[i])

\* C4_KeepFirst for the inputs with unique column names.
C4_KeepFirstUniqueNames == HasUniqueNames(snapshot) => C4_KeepFirst

\* The positions of the generically named return-ratio columns of a table.
RoasGenericCols(t) == {i \in 1..Len(t) : ColumnInfo[t[i].name].norm \in RoasGenericTargets}

\* Another column of the table is a more specific return ratio: its
\* normalized name starts with 'roas' and is longer.
HasSpecificRoas(t) ==
    \E i \in 1..Len(t) :
        /\ StartsWith(ColumnInfo[t[i].name].norm, <<"r","o","a","s">>)
        /\ ColumnInfo[t[i].name].norm \notin RoasGenericTargets

\* C10, as stated: with drop_roas_generic, prepare_df_for_view removes the
\* 'ROAS' column only when the table has a more specific return-ratio
\* column, and keeps it otherwise.
C10_DropsRoasOnlyWhenSpecific ==
    (Called("prepare") /\ op.drop_roas_generic /\ ~HasSpecificRoas(snapshot)) =>
        \A i \in RoasGenericCols(snapshot) : HasColumn(out, snapshot[i])

\* C10, amended: for a table with a row, with drop_roas_generic no column
\* whose normalized name is 'roas' is left in the output of
\* prepare_df_for_view, whatever the other columns are; without
\* drop_roas_generic every such column is kept.
C10_DropsRoasGeneric ==
    (Called("prepare") /\ ~Empty(snapshot)) =>
        IF op.drop_roas_generic
        THEN RoasGenericCols(out) = {}
        ELSE \A i \in RoasGenericCols(snapshot) : HasColumn(out, snapshot[i])

\* 'ROAS' was the only return-ratio column of a table with a row and
\* drop_roas_generic removed it.
C10_Witness ==
    /\ Called("prepare")
    /\ op.drop_roas_generic
    /\ ~Empty(snapshot)
    /\ RoasGenericCols(snapshot) # {}
    /\ ~HasSpecificRoas(snapshot)
    /\ RoasGenericCols(out) = {}

\* The end of the name carries the secondary-variant marker.
EndsInMarker(name) ==
    LET lc == DetectorKey(name)
    IN  EndsWith(lc, <<"_","n">>) \/ EndsWith(lc, <<"o","b","j","e","t","i","v","o"," ","n">>)

\* The name carries the marker the way the code looks for it.
CarriesMarker(name) ==
    LET lc == DetectorKey(name)
    IN  \/ EndsWith(lc, <<"_","n">>)
        \/ Contains(lc, <<"o","b","j","e","t","i","v","o","_","n">>)
        \/ Contains(lc, <<"o","b","j","e","t","i","v","o"," ","n">>)

DigitsOnly(c) == c.k = "str" /\ AllDigits(c.s)

\* C5: in the output of format_table_br every cell of a column whose name
\* _is_id_col classifies as an identifier is a text of decimal digits only,
\* possibly empty, whatever the input cell was.
C5_IdentifierDigitsOnly ==
    Called("format") =>
        \A i \in 1..Len(out) :
            ColumnInfo[out[i].name].is_id =>
                \A j \in 1..Len(out[i].cells) : DigitsOnly(out[i].cells[j])

\* An identifier column held a float with a fractional part and a cell that
\* is not a number, and both came out as digits.
C5_Witness ==
    /\ Called("format")
    /\ \E i \in 1..Len(snapshot) :
        /\ ColumnInfo[snapshot[i].name].is_id
        /\ \E j, l \in 1..Len(snapshot[i].cells) :
            /\ snapshot[i].cells[j] = PyFloat(2469, 2)
            /\ out[i].cells[j] = PyStr(<<"1","2","3","4","5">>)
            /\ snapshot[i].cells[l].k \in {"str", "none", "nan"}
            /\ DigitsOnly(out[i].cells[l])

\* C6: none of replace_acos_obj_with_roas_obj, prepare_df_for_view and
\* format_table_br changes its argument: after every call the table the
\* caller passed has the column names, column order and cells it had when
\* the call was made.
C6_ArgumentUnchanged == df = snapshot

\* A call returned a table that differs from its argument.
C6_Witness ==
    /\ op.fn \in {"replace", "prepare", "format"}
    /\ ~op.raised
    /\ out # snapshot
    /\ ~Empty(snapshot)

\* C7, as stated: in the output of format_table_br every missing input cell
\* (NaN, None or the NA marker) is the empty string, in every column class
\* and on every path.
C7_MissingRendersEmpty ==
    Called("format") =>
        \A i \in 1..Len(snapshot) :
            \A j \in 1..Len(snapshot[i].cells) :
                IsNA(snapshot[i].cells[j]) => out[i].cells[j] = PyStr(<<>>)

\* What does hold of missing cells: a NaN cell is the empty string in every
\* column, and so is every missing cell of a column that is an identifier or
\* reaches the numeric branches.
C7_NaNRendersEmpty ==
    (Called("format") /\ ~Empty(snapshot)) =>
        \A i \in 1..Len(snapshot) :
            \A j \in 1..Len(snapshot[i].cells) :
                /\ snapshot[i].cells[j] = NaN => out[i].cells[j] = PyStr(<<>>)
                /\ (IsNA(snapshot[i].cells[j])
                      /\ (ColumnInfo[snapshot[i].name].is_id \/ IsNumericColumn(snapshot[i])))
                   => out[i].cells[j] = PyStr(<<>>)

\* Fewer than 60% of the non-missing cells of the column coerce to a number.
BelowThreshold(col) ==
    /\ CountNotNA(col.cells) > 0
    /\ 100 * Cardinality(Numbers(col)) < 60 * CountNotNA(col.cells)

\* C9, as stated: in format_table_br a column in which fewer than 60% of the
\* non-missing cells coerce to a number is rendered as text, each non-missing
\* cell as its raw string form, whatever the name of the column, identifier
\* names included.
C9_BelowThresholdIsRawText ==
    Called("format") =>
        \A i \in 1..Len(snapshot) :
            BelowThreshold(snapshot[i]) =>
                \A j \in 1..Len(snapshot[i].cells) :
                    ~IsNA(snapshot[i].cells[j]) =>
                        out[i].cells[j] = PyStr(AsStr(snapshot[i].cells[j]))

\* C9, amended: a column whose name is not an identifier and in which fewer
\* than 60% of the non-missing cells coerce to a number is rendered as text
\* whatever else its name says: each non-missing cell is its raw string
\* form, except that a cell whose string form is 'nan' is the empty string.
C9_BelowThresholdIsText ==
    Called("format") =>
        \A i \in 1..Len(snapshot) :
            (BelowThreshold(snapshot[i]) /\ ~ColumnInfo[snapshot[i].name].is_id) =>
                \A j \in 1..Len(snapshot[i].cells) :
                    ~IsNA(snapshot[i].cells[j]) =>
                        out[i].cells[j] =
                            IF AsStr(snapshot[i].cells[j]) = NanText
                            THEN PyStr(<<>>)
                            ELSE PyStr(AsStr(snapshot[i].cells[j]))

\* A column with a money, percent or count name held a number and a text
\* that does not coerce, half of its non-missing cells, and the number came
\* out as its raw string form.
C9_Witness ==
    /\ Called("format")
    /\ \E i \in 1..Len(snapshot) :
        /\ BelowThreshold(snapshot[i])
        /\ \/ ColumnInfo[snapshot[i].name].is_money
           \/ ColumnInfo[snapshot[i].name].is_percent
           \/ ColumnInfo[snapshot[i].name].is_count
        /\ \E j \in Numbers(snapshot[i]) :
            /\ snapshot[i].cells[j].k \in {"int", "float"}
            /\ out[i].cells[j] = PyStr(AsStr(snapshot[i].cells[j]))

RoasRealNorm == <<"r","o","a","s","_","r","e","a","l">>

AcosRealNorm == <<"a","c","o","s","_","r","e","a","l">>

IsTarget(col) == StartsWith(ColumnInfo[col.name].norm, RoasObjetivoPrefix)

IsRoasReal(col) == ColumnInfo[col.name].norm = RoasRealNorm

IsAcosReal(col) == ColumnInfo[col.name].norm = AcosRealNorm

IsActionColumn(col) == InList(col.name, ActionBlock)

HasTarget(t) == \E i \in 1..Len(t) : IsTarget(t[i])

HasRoasReal(t) == \E i \in 1..Len(t) : IsRoasReal(t[i])

HasAcosReal(t) == \E i \in 1..Len(t) : IsAcosReal(t[i])

\* An actual-return-ratio column stands right after a target column.
RoasRealNextToTarget(t) ==
    \E i \in 1..(Len(t) - 1) : IsTarget(t[i]) /\ IsRoasReal(t[i + 1])

\* The actual-cost-ratio column stands right after an actual-return-ratio
\* column.
AcosRealNextToRoasReal(t) ==
    \E i \in 1..(Len(t) - 1) : IsRoasReal(t[i]) /\ IsAcosReal(t[i + 1])

\* s is t with some of its elements left out.
RECURSIVE IsSubSeq(_, _)
IsSubSeq(s, t) ==
    IF s = <<>> THEN TRUE
    ELSE IF t = <<>> THEN FALSE
    ELSE IF Head(s) = Head(t) THEN IsSubSeq(Tail(s), Tail(t))
    ELSE IsSubSeq(s, Tail(t))

\* The columns of the output that no placement moved: those outside the
\* action block, without the actual return ratio when it had a target to
\* follow and without the actual cost ratio when it had an actual return
\* ratio to follow.
NotPlaced(t) ==
    LET stays(col) ==
            /\ ~IsActionColumn(col)
            /\ ~(IsRoasReal(col) /\ HasTarget(t))
            /\ ~(IsAcosReal(col) /\ HasRoasReal(t))
    IN  SelectSeq(t, stays)

\* C11: in the output of prepare_df_for_view for a table with a row, when a
\* target-return-ratio column and an actual-return-ratio column both exist
\* an actual-return-ratio column stands right after the target, and when an
\* actual-return-ratio column and the actual-cost-ratio column both exist
\* the actual-cost-ratio column stands right after an actual-return-ratio
\* column; the columns no placement applies to keep the relative order they
\* had in the input.
C11_PlacedNextTo ==
    (Called("prepare") /\ ~Empty(snapshot)) =>
        /\ (HasTarget(out) /\ HasRoasReal(out)) => RoasRealNextToTarget(out)
        /\ (HasRoasReal(out) /\ HasAcosReal(out)) => AcosRealNextToRoasReal(out)
        /\ IsSubSeq(NotPlaced(out), snapshot)

\* C11 with the pairs looked for in the input of the call, for inputs with
\* unique column names.
C11_PlacedNextToOfInput ==
    (Called("prepare") /\ ~Empty(snapshot) /\ HasUniqueNames(snapshot)) =>
        /\ (HasTarget(snapshot) /\ HasRoasReal(snapshot)) => RoasRealNextToTarget(out)
        /\ (HasRoasReal(snapshot) /\ HasAcosReal(snapshot)) => AcosRealNextToRoasReal(out)

\* The three columns were in the input in another order and stand in the
\* output as target, actual return ratio, actual cost ratio.
C11_Witness ==
    /\ Called("prepare")
    /\ Len(snapshot) = 3
    /\ IsAcosReal(snapshot[1]) /\ IsRoasReal(snapshot[2]) /\ IsTarget(snapshot[3])
    /\ IsTarget(out[1]) /\ IsRoasReal(out[2]) /\ IsAcosReal(out[3])

\* A table without the target: the actual return ratio stayed where it was.
C11_WitnessAbsent ==
    /\ Called("prepare")
    /\ Len(snapshot) = 3
    /\ ~HasTarget(snapshot) /\ ~HasAcosReal(snapshot)
    /\ IsRoasReal(snapshot[1])
    /\ out = snapshot

\* The names of the action block that the table has, in the order of the block.
BlockOf(t) ==
    LET present(c) == InList(c, Columns(t))
    IN  SelectSeq(ActionBlock, present)

\* The columns of the table outside the action block, in their order.
OutsideBlock(t) ==
    LET outside(col) == ~IsActionColumn(col)
    IN  SelectSeq(t, outside)

\* The table prepare_df_for_view hands to _enforce_action_block.
BeforePinning(t, drop_cpi_cols, drop_roas_generic) ==
    LET out1 == IF drop_cpi_cols THEN _drop_cols_by_norm(t, CpiTargets) ELSE t
        out2 == IF drop_roas_generic THEN _drop_cols_by_norm(out1, RoasGenericTargets) ELSE out1
    IN  _reorder_roas_acos(out2)

\* C12: in the output of prepare_df_for_view for a table with a row, those
\* of 'Acao_Recomendada', 'Confianca_Dado', 'Motivo' that the input has are
\* the last columns, in that order, and the other columns stand before them
\* in the order they had before the block was pinned.
C12_ActionBlockLast ==
    (Called("prepare") /\ ~Empty(snapshot)) =>
        LET block == BlockOf(snapshot)
            rest  == Len(out) - Len(block)
        IN  /\ rest >= 0
            /\ \A i \in 1..Len(block) : out[rest + i].name = block[i]
            /\ \A i \in 1..rest : ~IsActionColumn(out[i])
            /\ SubSeq(out, 1, rest)
                 = OutsideBlock(BeforePinning(snapshot, op.drop_cpi_cols, op.drop_roas_generic))

\* 'Motivo' was first and 'Acao_Recomendada' last in the input; the output is
\* the column between them, then 'Acao_Recomendada', then 'Motivo'.
C12_Witness ==
    /\ Called("prepare")
    /\ Len(snapshot) = 3
    /\ snapshot[1].name = ActionBlock[3]
    /\ snapshot[3].name = ActionBlock[1]
    /\ out = <<snapshot[2], snapshot[3], snapshot[1]>>

\* The name predicates of the numeric branches that hold of a name.
ClassesOf(name) ==
    {cls \in {"money", "percent", "count"} :
        \/ cls = "money" /\ ColumnInfo[name].is_money
        \/ cls = "percent" /\ ColumnInfo[name].is_percent
        \/ cls = "count" /\ ColumnInfo[name].is_count}

\* C13, as stated: of _is_money_col, _is_percent_col and _is_count_col at
\* most one is true of a column name.
C13_AtMostOneClass ==
    \A i \in 1..Len(snapshot) : Cardinality(ClassesOf(snapshot[i].name)) <= 1

\* C13, amended: _is_percent_col is never true of a name together with
\* _is_money_col or _is_count_col; _is_money_col and _is_count_col can both
\* be true of a name, and format_table_br then renders the numbers of the
\* column as money, the class it tests first.
C13_PercentExclusiveMoneyFirst ==
    /\ \A i \in 1..Len(snapshot) :
          "percent" \in ClassesOf(snapshot[i].name) => ClassesOf(snapshot[i].name) = {"percent"}
    /\ Called("format") =>
          \A i \in 1..Len(snapshot) :
              (IsNumericColumn(snapshot[i]) /\ {"money", "count"} \subseteq ClassesOf(snapshot[i].name)) =>
                  \A j \in 1..Len(snapshot[i].cells) :
                      out[i].cells[j] = PyStr(fmt_money_br(ToNumeric(snapshot[i].cells[j])))

\* A column whose name is money and count at once held 25 and came out as
\* 'R$ 25,00'.
C13_Witness ==
    /\ Called("format")
    /\ \E i \in 1..Len(snapshot) :
        /\ ClassesOf(snapshot[i].name) = {"money", "count"}
        /\ \E j \in 1..Len(snapshot[i].cells) :
            /\ snapshot[i].cells[j] = PyInt(25)
            /\ out[i].cells[j] = PyStr(<<"R","$"," ","2","5",",","0","0">>)

\* A percent name went through the percent branch.
C13_WitnessPercent ==
    /\ Called("format")
    /\ \E i \in 1..Len(snapshot) :
        /\ ClassesOf(snapshot[i].name) = {"percent"}
        /\ snapshot[i].cells = <<PyInt(25)>>
        /\ out[i].cells = <<PyStr(<<"2","5",",","0","0","%">>)>>

\* C14, as stated: for every input of replace_acos_obj_with_roas_obj whose
\* column names are unique, the output has as many columns, every column
\* that is not detected in its place and unchanged, and pairwise distinct
\* column names.
C14_NamesStayUnique ==
    (Called("replace") /\ HasUniqueNames(snapshot)) =>
        /\ Len(out) = Len(snapshot)
        /\ \A i \in 1..Len(snapshot) :
              ~IsAcosObjetivo(snapshot[i].name) => out[i] = snapshot[i]
        /\ HasUniqueNames(out)

\* What does hold: the output has as many columns as the input and every
\* column that is not detected is in its place, unchanged.
C14_ColumnsStayInPlace ==
    (Called("replace") /\ HasUniqueNames(snapshot)) =>
        /\ Len(out) = Len(snapshot)
        /\ \A i \in 1..Len(snapshot) :
              ~IsAcosObjetivo(snapshot[i].name) => out[i] = snapshot[i]

====
